---- MODULE Spec2Model ----
(***************************************************************************)
(* HIIK-Helper: the crawl session of HIIKDefaultSpider                     *)
(* (src/hiik_helper/spiders/hiik_default_spider.py) as it is run by        *)
(* main() through a Scrapy CrawlerProcess (src/hiik_helper/main.py).       *)
(*                                                                         *)
(* URLs are sequences of tokens: the host followed by the path segments.   *)
(* "u contains the substring r" is "r is a contiguous run of tokens of u". *)
(* An href that does not start with a host is relative and is resolved     *)
(* against the URL of the page that carries it.                            *)
(***************************************************************************)
EXTENDS Integers, Sequences, FiniteSets, TLC

VARIABLES
    site,                      \* the web site: URL -> page (never changes)
    start_urls,                \* constructor argument start_urls
    visited_urls_json,         \* file visited_urls.json (a JSON list)
    found_articles_json,       \* file found_articles.json (may not exist)
    phase,                     \* "Idle" | "Running" | "Stopping" | "Closed"
    session,                   \* number of the current session
    visited_json_urls,         \* self.visited_json_urls
    visited_urls_this_scrape,  \* self.visited_urls_this_scrape
    found_articles,            \* self.found_articles
    pending,                   \* requests waiting in the scheduler
    inflight,                  \* requests being downloaded
    seen,                      \* fingerprints held by the duplicate filter
    fetched,                   \* URL -> number of fetches issued this session
    now,                       \* the clock read by datetime.now
    flush_log,                 \* the save_* calls made so far this session
    close_reason,              \* "none" | "finished" | "shutdown"
    fetch_failed,              \* a download failed in this session
    start_visited,             \* visited_urls.json as it was at session start
    start_articles,            \* found_articles.json as it was at session start
    prev_run,                  \* how the previous session ended
    last_parse,                \* what the latest parse callback did
    processed,                 \* URLs whose response parse handled without raising
    yielded,                   \* URLs parse has yielded a request for this session
    failed,                    \* URLs whose download failed in this session
    prev_failed,               \* the same for the previous session
    visited_urls_readable,     \* visited_urls.json can be opened and json.load accepts it
    generated_articles_json,   \* the file generated_articles.json of the generator
    gen_start,                 \* that file before the generator's first call
    gen_calls                  \* the articles passed to save_generated_articles, per call

vars == << site, start_urls, visited_urls_json, found_articles_json, phase,
           session, visited_json_urls, visited_urls_this_scrape,
           found_articles, pending, inflight, seen, fetched, now, flush_log,
           close_reason, fetch_failed, start_visited, start_articles,
           prev_run, last_parse, processed, yielded, failed, prev_failed,
           visited_urls_readable, generated_articles_json, gen_start,
           gen_calls >>

(***************************************************************************)
(* Bounds of the model.                                                    *)
(***************************************************************************)
MaxSessions == 2
MaxConcurrent == 2
MaxCalls == 3

(***************************************************************************)
(* Values.                                                                 *)
(***************************************************************************)
None == "None"

Root == << "karennews.org" >>
A1 == << "karennews.org", "2024", "a" >>
A2 == << "karennews.org", "2024", "b" >>
RelA2 == << "2024", "b" >>
About == << "karennews.org", "about" >>
Off == << "other.org", "karennews.org", "2024", "x" >>

Hosts == { "karennews.org", "other.org" }
Urls == { Root, A1, A2 }

Range(s) == { s[i] : i \in DOMAIN s }

allowed_domains == { "karennews.org" }

article_link_domains ==
    << << "karennews.org", "category", "article" >>, << "karennews.org", "2024" >> >>

(***************************************************************************)
(* Python dict, kept in insertion order: a sequence of (key, value)        *)
(* entries with pairwise different keys.                                   *)
(***************************************************************************)
DictKeys(d) == { d[i].key : i \in DOMAIN d }

DictGet(d, k) == d[CHOOSE i \in DOMAIN d : d[i].key = k].value

DictSet(d, k, v) ==
    IF k \in DictKeys(d)
    THEN [ i \in DOMAIN d |-> IF d[i].key = k THEN [ key |-> k, value |-> v ] ELSE d[i] ]
    ELSE Append(d, [ key |-> k, value |-> v ])

RECURSIVE DictUpdate(_, _)
DictUpdate(d, other) ==
    IF other = << >> THEN d
    ELSE DictUpdate(DictSet(d, Head(other).key, Head(other).value), Tail(other))

(***************************************************************************)
(* The pages of the site.  A page is what the spider's queries see:        *)
(*   article_divs  number of div elements of class content_class_article   *)
(*   list_divs     one entry per div of class content_class_list: the      *)
(*                 href values re.findall finds in its markup, in order    *)
(*   anchors       the href values of the page's a elements                *)
(*   h1, h2        text of the first h1 / h2 element, None without one     *)
(*   ps            the text nodes of the p elements                        *)
(*   published     the article:published_time meta content, or None        *)
(***************************************************************************)
MkPage(a, l, s, sub, pub) ==
    [ article_divs |-> a, list_divs |-> l, anchors |-> s, h1 |-> "H",
      h2 |-> sub, ps |-> << "P1", "P2" >>, published |-> pub ]

RootPages ==
    { MkPage(0, << << A1 >> >>, { A1 }, None, None),
      MkPage(0, << << A1 >>, << RelA2 >> >>, { A1, RelA2 }, "S", None),
      MkPage(0, << << A1 >>, << >> >>, { A2 }, None, None),
      MkPage(0, << >>, { A1, A2, About, Off }, None, None),
      MkPage(1, << >>, { A1 }, "S", "T") }

A1Pages ==
    { MkPage(1, << >>, { A2, Root }, "S", "T"),
      MkPage(2, << >>, { A1 }, None, "T"),
      MkPage(1, << << A2 >> >>, { }, "S", None),
      MkPage(1, << << A2 >> >>, { A2 }, None, "T"),
      MkPage(0, << >>, { A2 }, None, None) }

A2Pages ==
    { MkPage(1, << >>, { A1 }, "S", "T"),
      MkPage(1, << >>, { }, None, None),
      MkPage(1, << << Root >> >>, { Root, A1 }, "S", None),
      MkPage(0, << << A1, A2 >>, << Off >> >>, { Off }, None, None) }

Sites ==
    { [ u \in Urls |-> IF u = Root THEN r ELSE IF u = A1 THEN a ELSE b ] :
        r \in RootPages, a \in A1Pages, b \in A2Pages }

(***************************************************************************)
(* Pure helpers of the spider.                                             *)
(***************************************************************************)
\* Python's  r in u  on strings, at the granularity of tokens
Contains(u, r) ==
    \E i \in 1..(Len(u) + 1) :
        /\ i + Len(r) - 1 <= Len(u)
        /\ SubSeq(u, i, i + Len(r) - 1) = r

\* mutant: only the first rule is tried
Mut_link_is_article_loop(rules, url) ==
    IF rules # << >> /\ Contains(url, Head(rules)) THEN "True" ELSE "None"

\* the for loop of link_is_article over a list of rules: it returns True at
\* the first rule the URL contains and falls off the end, returning None
RECURSIVE link_is_article_loop(_, _)
link_is_article_loop(rules, url) ==
    IF rules = << >> THEN "None"
    ELSE IF Contains(url, Head(rules)) THEN "True"
    ELSE link_is_article_loop(Tail(rules), url)

\* the truth value the callers of link_is_article test
link_is_article(url) == link_is_article_loop(article_link_domains, url) = "True"

current_page_is_article(page) == page.article_divs > 0

current_page_is_list(page) == Len(page.list_divs) > 0

\* re.findall(...)[0]: defined only for a block that holds an href
get_url_in_article(block) == block[1]

\* urljoin, as response.follow and LinkExtractor apply it to an href
Resolve(base, href) ==
    IF href # << >> /\ Head(href) \in Hosts THEN href ELSE << Head(base) >> \o href

\* LinkExtractor(allow_domains=...).extract_links(response)
extract_links(base, page) ==
    { l \in { Resolve(base, h) : h \in page.anchors } : Head(l) \in allowed_domains }

\* "\n\n".join(paragraphs)
\* mutant: the paragraphs are concatenated without the blank line
Mut_Join(ps, sep) == ps

RECURSIVE Join(_, _)
Join(ps, sep) ==
    IF ps = << >> THEN << >>
    ELSE IF Len(ps) = 1 THEN << ps[1] >>
    ELSE << ps[1], sep >> \o Join(Tail(ps), sep)

article_dict(url, page, time) ==
    ("url" :> url) @@ ("accessing-date" :> time)
    @@ ("last-modification" :> page.published) @@ ("headline" :> page.h1)
    @@ ("subheadline" :> page.h2) @@ ("paragraphs" :> Join(page.ps, "\n\n"))

(***************************************************************************)
(* The files as a session may find them.                                   *)
(***************************************************************************)
OldRecord == article_dict(A1, MkPage(1, << >>, { }, "Old", None), 0)

InitialVisitedFiles == { << >>, << A1 >>, << A2 >>, << A2, A1 >>, << Root >> }

InitialArticleFiles ==
    { [ exists |-> FALSE, data |-> << >> ],
      [ exists |-> TRUE, data |-> << >> ],
      [ exists |-> TRUE, data |-> << [ key |-> A1, value |-> OldRecord ] >> ] }

InitialStartUrls == { << Root >>, << A1 >> }

NoParse == [ url |-> << >>, handled |-> "none", raised |-> FALSE ]

Init ==
    /\ site \in Sites
    /\ start_urls \in InitialStartUrls
    /\ \/ visited_urls_readable = TRUE /\ visited_urls_json \in InitialVisitedFiles
       \/ visited_urls_readable = FALSE /\ visited_urls_json = << >>
    /\ found_articles_json \in InitialArticleFiles
    /\ phase = "Idle"
    /\ session = 0
    /\ visited_json_urls = << >>
    /\ visited_urls_this_scrape = { }
    /\ found_articles = << >>
    /\ pending = { }
    /\ inflight = { }
    /\ seen = { }
    /\ fetched = [ u \in Urls |-> 0 ]
    /\ now = 1
    /\ flush_log = << >>
    /\ close_reason = "none"
    /\ fetch_failed = FALSE
    /\ start_visited = << >>
    /\ start_articles = [ exists |-> FALSE, data |-> << >> ]
    /\ prev_run = "none"
    /\ last_parse = NoParse
    /\ processed = { }
    /\ yielded = { }
    /\ failed = { }
    /\ prev_failed = { }
    /\ generated_articles_json = [ exists |-> FALSE, data |-> << >> ]
    /\ gen_start = generated_articles_json
    /\ gen_calls = << >>

(***************************************************************************)
(* Session start: HIIKDefaultSpider.__init__ followed by the start         *)
(* requests of scrapy.Spider, one per start URL, which are made with       *)
(* dont_filter=True: they skip the duplicate filter and leave no           *)
(* fingerprint in it.                                                      *)
(***************************************************************************)
\* mutant: the load is taken to succeed whatever the file holds
Mut_baseline_loaded == TRUE

\* the open and json.load of visited_urls.json in __init__ succeed
baseline_loaded == visited_urls_readable

StartSession ==
    /\ phase \in { "Idle", "Closed", "Crashed" }
    /\ session < MaxSessions
    /\ baseline_loaded
    /\ session' = session + 1
    /\ phase' = "Running"
    /\ found_articles' = << >>
    /\ visited_urls_this_scrape' = { }
    /\ visited_json_urls' = visited_urls_json
    /\ pending' = Range(start_urls)
    /\ inflight' = { }
    /\ seen' = { }
    /\ fetched' = [ u \in Urls |-> 0 ]
    /\ flush_log' = << >>
    /\ close_reason' = "none"
    /\ fetch_failed' = FALSE
    /\ start_visited' = visited_urls_json
    /\ start_articles' = found_articles_json
    /\ prev_run' = IF phase = "Idle" THEN "none"
                   ELSE IF phase = "Crashed" THEN "crashed"
                   ELSE IF close_reason = "finished" /\ ~fetch_failed
                        THEN "complete" ELSE "incomplete"
    /\ last_parse' = NoParse
    /\ processed' = { }
    /\ yielded' = { }
    /\ failed' = { }
    /\ prev_failed' = failed
    /\ UNCHANGED << site, start_urls, visited_urls_json, found_articles_json, now,
                    visited_urls_readable, generated_articles_json,
                    gen_start, gen_calls >>

(***************************************************************************)
(* Session start with visited_urls.json missing or not JSON: __init__      *)
(* raises at the open or at json.load, no spider exists, the crawl never   *)
(* starts and the process ends.                                            *)
(***************************************************************************)
StartFail ==
    /\ phase \in { "Idle", "Failed" }
    /\ session < MaxSessions
    /\ ~baseline_loaded
    /\ session' = session + 1
    /\ phase' = "Failed"
    /\ start_visited' = visited_urls_json
    /\ start_articles' = found_articles_json
    /\ UNCHANGED << site, start_urls, visited_urls_json, found_articles_json,
                    visited_json_urls, visited_urls_this_scrape, found_articles,
                    pending, inflight, seen, fetched, now, flush_log,
                    close_reason, fetch_failed, prev_run, last_parse, processed,
                    yielded, failed, prev_failed, visited_urls_readable, generated_articles_json,
                    gen_start, gen_calls >>

(***************************************************************************)
(* The engine takes a request from the scheduler and downloads it.         *)
(***************************************************************************)
Fetch(u) ==
    /\ phase = "Running"
    /\ u \in pending
    /\ Cardinality(inflight) < MaxConcurrent
    /\ pending' = pending \ { u }
    /\ inflight' = inflight \cup { u }
    /\ fetched' = [ fetched EXCEPT ![u] = @ + 1 ]
    /\ UNCHANGED << site, start_urls, visited_urls_json, found_articles_json,
                    phase, session, visited_json_urls, visited_urls_this_scrape,
                    found_articles, seen, now, flush_log, close_reason,
                    fetch_failed, start_visited, start_articles, prev_run,
                    last_parse, processed, yielded, failed, prev_failed,
                    visited_urls_readable, generated_articles_json,
                    gen_start, gen_calls >>

(***************************************************************************)
(* A download fails: the request has no errback, parse is not called.      *)
(***************************************************************************)
\* mutant: a failed download marks its URL as visited
Mut_visited_after_failure(u) == visited_urls_this_scrape \cup { u }

\* self.visited_urls_this_scrape after a failed download: no callback of the
\* spider runs, the set is as it was
visited_after_failure(u) == visited_urls_this_scrape

FetchFail(u) ==
    /\ phase \in { "Running", "Stopping" }
    /\ u \in inflight
    /\ inflight' = inflight \ { u }
    /\ fetch_failed' = TRUE
    /\ failed' = failed \cup { u }
    /\ visited_urls_this_scrape' = visited_after_failure(u)
    /\ UNCHANGED << site, start_urls, visited_urls_json, found_articles_json,
                    phase, session, visited_json_urls, found_articles, pending,
                    seen, fetched, now, flush_log, close_reason, start_visited,
                    start_articles, prev_run, last_parse, processed, yielded,
                    prev_failed, visited_urls_readable, generated_articles_json,
                    gen_start, gen_calls >>

(***************************************************************************)
(* HIIKDefaultSpider.parse, the callback of every response.                *)
(***************************************************************************)
\* mutant: the session-visited set is not consulted
Mut_parse_extracts_restage(u) ==
    /\ current_page_is_article(site[u])
    /\ u \notin Range(visited_json_urls)

\* mutant: the baseline is not consulted
Mut_parse_extracts(u) ==
    /\ current_page_is_article(site[u])
    /\ u \notin visited_urls_this_scrape

\* the condition of the if: the page is extracted as an article
parse_extracts(u) ==
    /\ current_page_is_article(site[u])
    /\ u \notin Range(visited_json_urls)
    /\ u \notin visited_urls_this_scrape

\* the condition of the elif: the list-item blocks of the page are read
parse_lists(u) == ~parse_extracts(u) /\ current_page_is_list(site[u])

\* get_url_in_article raises IndexError on a block without href; parse is a
\* generator that has yielded nothing yet, so the page yields no request
parse_raises(u) ==
    parse_lists(u) /\ \E i \in DOMAIN site[u].list_divs : site[u].list_divs[i] = << >>

\* the "more" links of the list-item blocks that link_is_article accepts
\* mutant: the href of every list block is taken, unclassified
Mut_more_links(u) ==
    { get_url_in_article(b) : b \in Range(site[u].list_divs) }

more_links(u) ==
    { h \in { get_url_in_article(b) : b \in Range(site[u].list_divs) } :
        link_is_article(h) }

\* article_links as it stands at the for loop that yields response.follow
article_links(u) ==
    (IF parse_lists(u) THEN { Resolve(u, h) : h \in more_links(u) } ELSE { })
    \cup { l \in extract_links(u, site[u]) : link_is_article(l) }

\* self.found_articles after the callback
\* mutant: a page without subheadline is not staged
Mut_staged_after_parse(u) ==
    IF parse_extracts(u) /\ site[u].h2 # None
    THEN DictSet(found_articles, u, article_dict(u, site[u], now))
    ELSE found_articles

staged_after_parse(u) ==
    IF parse_extracts(u)
    THEN DictSet(found_articles, u, article_dict(u, site[u], now))
    ELSE found_articles

\* mutant: the URL is not added to the session-visited set
Mut_visited_after_parse(u) == visited_urls_this_scrape

\* self.visited_urls_this_scrape after the callback
visited_after_parse(u) ==
    IF parse_extracts(u) THEN visited_urls_this_scrape \cup { u }
    ELSE visited_urls_this_scrape

\* the requests of response.follow(link, callback=self.parse) that the
\* engine schedules: the offsite filter drops foreign hosts, the duplicate
\* filter drops fingerprints it has seen
scheduled(u) ==
    IF phase # "Running" \/ parse_raises(u) THEN { }
    ELSE { r \in article_links(u) : Head(r) \in allowed_domains /\ r \notin seen }

\* the URLs of the requests parse yields: none when it raises
yielded_by_parse(u) == IF parse_raises(u) THEN { } ELSE article_links(u)

\* mutant: parse writes the visited list through to the file as it goes
Mut_files_after_parse(u) ==
    [ visited |-> IF parse_extracts(u) THEN Append(visited_urls_json, u)
                  ELSE visited_urls_json,
      articles |-> found_articles_json ]

\* the two files after the callback: parse opens no file
files_after_parse(u) ==
    [ visited |-> visited_urls_json, articles |-> found_articles_json ]

handled_as(u) ==
    IF parse_extracts(u) THEN "article"
    ELSE IF parse_lists(u) THEN "list" ELSE "unknown"

Parse(u) ==
    /\ phase \in { "Running", "Stopping" }
    /\ u \in inflight
    /\ inflight' = inflight \ { u }
    /\ found_articles' = staged_after_parse(u)
    /\ visited_urls_this_scrape' = visited_after_parse(u)
    /\ now' = IF parse_extracts(u) THEN now + 1 ELSE now
    /\ pending' = pending \cup scheduled(u)
    /\ seen' = seen \cup scheduled(u)
    /\ last_parse' = [ url |-> u, handled |-> handled_as(u), raised |-> parse_raises(u) ]
    /\ processed' = IF parse_raises(u) THEN processed ELSE processed \cup { u }
    /\ yielded' = yielded \cup yielded_by_parse(u)
    /\ visited_urls_json' = files_after_parse(u).visited
    /\ found_articles_json' = files_after_parse(u).articles
    /\ UNCHANGED << site, start_urls, phase, session, visited_json_urls, fetched,
                    flush_log, close_reason, fetch_failed, start_visited,
                    start_articles, prev_run, failed, prev_failed,
                    visited_urls_readable, generated_articles_json,
                    gen_start, gen_calls >>

(***************************************************************************)
(* The process dies without running the close handler (kill, power loss).  *)
(***************************************************************************)
Crash ==
    /\ phase \in { "Running", "Stopping" }
    /\ phase' = "Crashed"
    /\ close_reason' = "crash"
    /\ pending' = { }
    /\ inflight' = { }
    /\ UNCHANGED << site, start_urls, visited_urls_json, found_articles_json,
                    session, visited_json_urls, visited_urls_this_scrape,
                    found_articles, seen, fetched, now, flush_log, fetch_failed,
                    start_visited, start_articles, prev_run, last_parse,
                    processed, yielded, failed, prev_failed,
                    visited_urls_readable, generated_articles_json,
                    gen_start, gen_calls >>

(***************************************************************************)
(* An external shutdown signal: the engine stops taking requests from the  *)
(* scheduler, lets the downloads in flight finish, and closes the spider.  *)
(***************************************************************************)
Shutdown ==
    /\ phase = "Running"
    /\ phase' = "Stopping"
    /\ close_reason' = "shutdown"
    /\ pending' = { }
    /\ UNCHANGED << site, start_urls, visited_urls_json, found_articles_json,
                    session, visited_json_urls, visited_urls_this_scrape,
                    found_articles, inflight, seen, fetched, now, flush_log,
                    fetch_failed, start_visited, start_articles, prev_run,
                    last_parse, processed, yielded, failed, prev_failed,
                    visited_urls_readable, generated_articles_json,
                    gen_start, gen_calls >>

(***************************************************************************)
(* spider_closing, the receiver of the spider_closed signal.               *)
(***************************************************************************)
\* list(set): the elements of a set in some order
Orders(S) == { s \in [ 1..Cardinality(S) -> S ] : Range(s) = S }

\* mutant: the staged entries replace the file content
Mut_Merge_replace(data, staged) == staged

\* mutant: the staged entries are appended without looking at the keys
Mut_Merge(data, staged) == data \o staged

\* data.update(self.found_articles) on the loaded file content
Merge(data, staged) == DictUpdate(data, staged)

\* mutant: the articles are saved before the visited URLs
Mut_spider_closing_calls ==
    << "save_found_articles_to_json", "save_visited_urls_to_json" >>

\* the calls of spider_closing, in the order it makes them
spider_closing_calls ==
    << "save_visited_urls_to_json", "save_found_articles_to_json" >>

\* mutant: save_visited_urls_to_json writes the session's URLs only
Mut_CloseStep(call, st, order) ==
    IF st.raised THEN st
    ELSE IF call = "save_visited_urls_to_json"
    THEN [ st EXCEPT !.mem = st.mem \o order,
                     !.vfile = order,
                     !.log = Append(st.log, call) ]
    ELSE IF st.afile.exists
    THEN [ st EXCEPT !.afile = [ exists |-> TRUE,
                                 data |-> Merge(st.afile.data, found_articles) ],
                     !.log = Append(st.log, call) ]
    ELSE [ st EXCEPT !.raised = TRUE, !.log = Append(st.log, call) ]

\* one call of spider_closing applied to st = the two files, the in-memory
\* list, the calls made and whether an exception has ended the handler
CloseStep(call, st, order) ==
    IF st.raised THEN st
    ELSE IF call = "save_visited_urls_to_json"
    THEN [ st EXCEPT !.mem = st.mem \o order,
                     !.vfile = st.mem \o order,
                     !.log = Append(st.log, call) ]
    ELSE IF st.afile.exists
    THEN [ st EXCEPT !.afile = [ exists |-> TRUE,
                                 data |-> Merge(st.afile.data, found_articles) ],
                     !.log = Append(st.log, call) ]
    ELSE [ st EXCEPT !.raised = TRUE, !.log = Append(st.log, call) ]

RECURSIVE CloseSteps(_, _, _)
CloseSteps(calls, st, order) ==
    IF calls = << >> THEN st
    ELSE CloseSteps(Tail(calls), CloseStep(Head(calls), st, order), order)

\* the spider_closed signal is sent when the engine has nothing left to do
\* and when it has been told to stop and the downloads in flight are done
spider_closed ==
    \/ phase = "Running" /\ pending = { } /\ inflight = { }
    \/ phase = "Stopping" /\ inflight = { }

SpiderClosing ==
    /\ spider_closed
    /\ \E order \in Orders(visited_urls_this_scrape) :
         LET st == CloseSteps(spider_closing_calls,
                              [ vfile |-> visited_urls_json,
                                mem |-> visited_json_urls,
                                afile |-> found_articles_json,
                                log |-> << >>, raised |-> FALSE ],
                              order)
         IN /\ visited_urls_json' = st.vfile
            /\ visited_json_urls' = st.mem
            /\ found_articles_json' = st.afile
            /\ flush_log' = flush_log \o st.log
    /\ phase' = "Closed"
    /\ close_reason' = IF phase = "Running" THEN "finished" ELSE close_reason
    /\ UNCHANGED << site, start_urls, session, visited_urls_this_scrape,
                    found_articles, pending, inflight, seen, fetched, now,
                    fetch_failed, start_visited, start_articles, prev_run,
                    last_parse, processed, yielded, failed, prev_failed,
                    visited_urls_readable, generated_articles_json,
                    gen_start, gen_calls >>

Next ==
    \/ StartSession
    \/ StartFail
    \/ Crash
    \/ \E u \in Urls : Fetch(u)
    \/ \E u \in Urls : FetchFail(u)
    \/ \E u \in Urls : Parse(u)
    \/ Shutdown
    \/ SpiderClosing

Spec == Init /\ [][Next]_vars

(***************************************************************************)
(* The article generator, run as a program of its own after a crawl: each  *)
(* generate_once receives a parsed ArticleGenerationPrompt from the model  *)
(* and saves its articles to generated_articles.json.                      *)
(***************************************************************************)
\* values of ArticleGenerationPrompt.Article
G1 == [ Headline |-> "h1", Subheadline |-> "s1", Paragraphs |-> "p1" ]
G2 == [ Headline |-> "h2", Subheadline |-> "s2", Paragraphs |-> "p2" ]

\* values of ArticleGenerationPrompt.articles
GeneratedInputs == { << >>, << G1 >>, << G2 >>, << G1, G2 >>, << G2, G2 >> }

\* a record written by an earlier run of the generator
OldGenerated == ("headline" :> "h0") @@ ("subheadline" :> "s0") @@ ("paragraphs" :> "p0")

InitialGeneratedFiles ==
    { [ exists |-> FALSE, data |-> << >> ],
      [ exists |-> TRUE, data |-> << >> ],
      [ exists |-> TRUE, data |-> << OldGenerated >> ] }

\* the loop that brings the articles into dictionary format
article_list(articles) ==
    [ i \in DOMAIN articles |->
        ("headline" :> articles[i].Headline)
        @@ ("subheadline" :> articles[i].Subheadline)
        @@ ("paragraphs" :> articles[i].Paragraphs) ]

\* mutant: the file is written with the new records only
Mut_save_generated_articles(file, articles) ==
    [ exists |-> TRUE, data |-> article_list(articles) ]

\* the output file after save_generated_articles(articles)
save_generated_articles(file, articles) ==
    LET created == IF ~file.exists THEN [ exists |-> TRUE, data |-> << >> ]
                   ELSE file
    IN  [ exists |-> TRUE, data |-> created.data \o article_list(articles) ]

generate_once(articles) ==
    /\ Len(gen_calls) < MaxCalls
    /\ generated_articles_json' = save_generated_articles(generated_articles_json, articles)
    /\ gen_calls' = Append(gen_calls, articles)
    /\ UNCHANGED << site, start_urls, visited_urls_json, found_articles_json,
                    phase, session, visited_json_urls, visited_urls_this_scrape,
                    found_articles, pending, inflight, seen, fetched, now,
                    flush_log, close_reason, fetch_failed, start_visited,
                    start_articles, prev_run, last_parse, processed, yielded,
                    failed, prev_failed, visited_urls_readable, gen_start >>

\* the generator started on a found_articles.json that a crawl has left
GenInit ==
    /\ site \in Sites
    /\ site[Root] = MkPage(0, << << A1 >> >>, { A1 }, None, None)
    /\ site[A1] = MkPage(2, << >>, { A1 }, None, "T")
    /\ site[A2] = MkPage(1, << >>, { }, None, None)
    /\ start_urls = << Root >>
    /\ visited_urls_readable = TRUE
    /\ visited_urls_json = << A1 >>
    /\ found_articles_json =
           [ exists |-> TRUE, data |-> << [ key |-> A1, value |-> OldRecord ] >> ]
    /\ phase = "Idle"
    /\ session = 0
    /\ visited_json_urls = << >>
    /\ visited_urls_this_scrape = { }
    /\ found_articles = << >>
    /\ pending = { }
    /\ inflight = { }
    /\ seen = { }
    /\ fetched = [ u \in Urls |-> 0 ]
    /\ now = 1
    /\ flush_log = << >>
    /\ close_reason = "none"
    /\ fetch_failed = FALSE
    /\ start_visited = << >>
    /\ start_articles = [ exists |-> FALSE, data |-> << >> ]
    /\ prev_run = "none"
    /\ last_parse = NoParse
    /\ processed = { }
    /\ yielded = { }
    /\ failed = { }
    /\ prev_failed = { }
    /\ generated_articles_json \in InitialGeneratedFiles
    /\ gen_start = generated_articles_json
    /\ gen_calls = << >>

GenNext == \E articles \in GeneratedInputs : generate_once(articles)

GenSpec == GenInit /\ [][GenNext]_vars

(***************************************************************************)
(* Properties.                                                             *)
(***************************************************************************)
InSession == phase \in { "Running", "Stopping", "Closed" }

FlushCalls == << "save_visited_urls_to_json", "save_found_articles_to_json" >>

\* C1: no URL of the VisitedSet baseline loaded at session start is
\* enqueued or fetched during that session, whatever links the fetched
\* pages contain (stated for the requests that parse makes for the links
\* it finds; the start URLs are requested before any page is parsed).
C1_BaselineNeverFetched ==
    InSession =>
        \A u \in (Range(start_visited) \cap Urls) \ Range(start_urls) :
            fetched[u] = 0 /\ u \notin pending /\ u \notin inflight

C3_FlushOnceInOrder ==
    /\ phase \in { "Running", "Stopping" } =>
           /\ flush_log = << >>
           /\ visited_urls_json = start_visited
           /\ found_articles_json = start_articles
    /\ phase = "Closed" =>
           /\ flush_log = FlushCalls
           /\ close_reason \in { "finished", "shutdown" }
           /\ \E order \in Orders(visited_urls_this_scrape) :
                  visited_urls_json = start_visited \o order
    /\ (phase = "Running" /\ pending = { } /\ inflight = { }) => ENABLED SpiderClosing
    /\ (phase = "Stopping" /\ inflight = { }) => ENABLED SpiderClosing

\* C3 witness: a session ended by a shutdown signal that had staged an
\* article, closed with both saves called in order.
C3_Witness ==
    /\ phase = "Closed"
    /\ close_reason = "shutdown"
    /\ found_articles # << >>
    /\ flush_log = FlushCalls
    /\ visited_urls_json # start_visited

C5_SecondRunStoresUnchanged ==
    (session >= 2 /\ prev_run = "complete" /\ phase = "Closed"
        /\ close_reason = "finished" /\ ~fetch_failed) =>
        /\ visited_urls_json = start_visited
        /\ found_articles_json = start_articles

\* C6: Merge is idempotent: merging the staged records into the Article
\* Store a second time leaves it as the first merge left it.
C6_MergeIdempotent ==
    /\ Merge(Merge(found_articles_json.data, found_articles), found_articles)
           = Merge(found_articles_json.data, found_articles)
    /\ (phase = "Closed" /\ start_articles.exists) =>
           /\ found_articles_json.data = Merge(start_articles.data, found_articles)
           /\ Merge(found_articles_json.data, found_articles) = found_articles_json.data

\* C6 witness: a flush has merged two staged records into a store that
\* already held a record under one of their URLs.
C6_Witness ==
    /\ phase = "Closed"
    /\ start_articles.exists
    /\ A1 \in DictKeys(start_articles.data)
    /\ A1 \in DictKeys(found_articles)
    /\ A2 \in DictKeys(found_articles)
    /\ DictGet(found_articles_json.data, A1) # DictGet(start_articles.data, A1)

\* C7: when found_articles.json does not exist at flush time, the merge
\* creates it and writes every staged record, so that no staged article is
\* lost (stated for the sessions that have staged an article).
C7_MergeCreatesMissingStore ==
    (phase = "Closed" /\ ~start_articles.exists /\ found_articles # << >>) =>
        /\ found_articles_json.exists
        /\ \A i \in DOMAIN found_articles :
               found_articles[i] \in Range(found_articles_json.data)

\* C8: a URL is fetched at most once per session.
C8_FetchedAtMostOnce ==
    InSession => \A u \in Urls : fetched[u] <= 1

\* C9: a session ended by a shutdown signal still makes the flush, and every
\* staged article and every session-visited URL is in the durable stores.
C9_ShutdownLosesNothing ==
    (phase = "Closed" /\ close_reason = "shutdown") =>
        /\ flush_log = FlushCalls
        /\ visited_urls_this_scrape \subseteq Range(visited_urls_json)
        /\ \A i \in DOMAIN found_articles :
               found_articles[i] \in Range(found_articles_json.data)

\* C10: a fetched page with both the article marker and the list marker is
\* handled as an article page (extraction, no reading of list blocks), and
\* a page with neither marker is handled as unknown.
C10_ArticleMarkerPriority ==
    last_parse.handled # "none" =>
        LET page == site[last_parse.url]
        IN /\ (current_page_is_article(page) /\ current_page_is_list(page))
                  => last_parse.handled = "article"
           /\ (~current_page_is_article(page) /\ ~current_page_is_list(page))
                  => last_parse.handled = "unknown"

(***************************************************************************)
(* The reactor keeps running what is ready: a scheduled request is         *)
(* fetched, a download ends in a response or a failure, and the spider is  *)
(* closed once nothing is left.                                            *)
(***************************************************************************)
FairSpec ==
    /\ Spec
    /\ WF_vars(\E u \in Urls : Fetch(u))
    /\ WF_vars(\E u \in Urls : Parse(u) \/ FetchFail(u))
    /\ WF_vars(SpiderClosing)

\* the URLs and hrefs the classifier is asked about
LinkCandidates == Urls \cup { RelA2, About, Off, << >> }

\* rule r occurs in url at offset p, token by token
OccursAt(url, r, p) ==
    /\ p + Len(r) <= Len(url)
    /\ \A k \in 1..Len(r) : url[p + k] = r[k]

\* C11: the Link Classifier returns Article for a URL exactly when the URL
\* contains at least one of the configured rule substrings, and with an
\* empty rule set it classifies no URL as Article.
C11_LinkClassifier ==
    /\ \A url \in LinkCandidates :
           link_is_article(url) <=>
               \E i \in DOMAIN article_link_domains :
                   \E p \in 0..Len(url) : OccursAt(url, article_link_domains[i], p)
    /\ \A url \in LinkCandidates : link_is_article_loop(<< >>, url) = "None"
    /\ \A url \in seen : link_is_article(url)

\* C11 witness: parse has classified the links of a page that carries
\* article links and other links; it has requested the former only.
C11_Witness ==
    /\ phase = "Running"
    /\ last_parse.url = Root
    /\ { A1, About, Off } \subseteq site[Root].anchors
    /\ A1 \in seen
    /\ About \notin seen
    /\ link_is_article(Off)
    /\ ~link_is_article(About)

\* C12: a page without subheadline (or without published-time metadata) is
\* extracted without failing: the staged record of every URL carries null for
\* the missing field, the page's headline and its joined paragraphs, and the
\* URL is marked session-visited; no article page handled by parse raises.
C12_MissingOptionalFields ==
    /\ \A u \in DictKeys(found_articles) :
           LET rec == DictGet(found_articles, u) IN
               /\ rec["subheadline"] = site[u].h2
               /\ rec["last-modification"] = site[u].published
               /\ rec["headline"] = site[u].h1
               /\ rec["paragraphs"] = Join(site[u].ps, "\n\n")
               /\ rec["url"] = u
               /\ phase \in { "Running", "Stopping" } => u \in visited_urls_this_scrape
    /\ last_parse.handled = "article" =>
           /\ ~last_parse.raised
           /\ last_parse.url \in DictKeys(found_articles)
           /\ last_parse.url \in visited_urls_this_scrape

\* C12 witness: a record staged for a page that has neither subheadline nor
\* published time, with headline and paragraphs filled in
C12_Witness ==
    /\ phase = "Running"
    /\ last_parse.handled = "article"
    /\ site[last_parse.url].h2 = None
    /\ site[last_parse.url].published = None
    /\ DictGet(found_articles, last_parse.url)["subheadline"] = None
    /\ DictGet(found_articles, last_parse.url)["last-modification"] = None
    /\ DictGet(found_articles, last_parse.url)["headline"] = "H"
    /\ DictGet(found_articles, last_parse.url)["paragraphs"] = << "P1", "\n\n", "P2" >>

\* C13: a list block without href is skipped without being fatal to the
\* page: once parse has handled a list page that has such a block, no
\* exception has left parse, and the article links of the page's other blocks
\* and its outbound article links have been requested.
C13_HreflessBlockSkipped ==
    ( /\ phase = "Running"
      /\ last_parse.handled = "list"
      /\ \E i \in DOMAIN site[last_parse.url].list_divs :
             site[last_parse.url].list_divs[i] = << >> )
    => /\ ~last_parse.raised
       /\ \A b \in Range(site[last_parse.url].list_divs) :
              ( /\ b # << >>
                /\ link_is_article(get_url_in_article(b))
                /\ Head(Resolve(last_parse.url, get_url_in_article(b))) \in allowed_domains )
              => Resolve(last_parse.url, get_url_in_article(b)) \in seen
       /\ \A l \in extract_links(last_parse.url, site[last_parse.url]) :
              link_is_article(l) => l \in seen

\* The end-to-end scenario in this spider's configuration: empty stores, the
\* seed is a list page with one block linking to an article URL, and that
\* URL is an article page without subheadline that links nowhere else.
EndToEndScenario ==
    /\ InSession
    /\ session = 1
    /\ start_urls = << Root >>
    /\ start_visited = << >>
    /\ start_articles = [ exists |-> TRUE, data |-> << >> ]
    /\ ~current_page_is_article(site[Root])
    /\ current_page_is_list(site[Root])
    /\ site[Root].list_divs = << << A1 >> >>
    /\ extract_links(Root, site[Root]) \subseteq { A1 }
    /\ current_page_is_article(site[A1])
    /\ site[A1].h2 = None
    /\ extract_links(A1, site[A1]) \subseteq { A1 }

\* C14: in the end-to-end scenario the session fetches the root and then the
\* article URL, each once and nothing else, and after the flush of a session
\* that ran to its end the Article Store holds exactly one entry, keyed by
\* the article URL, with the headline, a null subheadline and the paragraphs
\* joined by a blank line; the list page has no entry.
C14_EndToEnd ==
    EndToEndScenario =>
        /\ fetched[A2] = 0
        /\ fetched[Root] <= 1
        /\ fetched[A1] <= 1
        /\ fetched[A1] = 1 => Root \in processed
        /\ (phase = "Closed" /\ close_reason = "finished" /\ ~fetch_failed) =>
               /\ fetched[Root] = 1
               /\ fetched[A1] = 1
               /\ found_articles_json.exists
               /\ Len(found_articles_json.data) = 1
               /\ DictKeys(found_articles_json.data) = { A1 }
               /\ Root \notin DictKeys(found_articles_json.data)
               /\ DictGet(found_articles_json.data, A1)["url"] = A1
               /\ DictGet(found_articles_json.data, A1)["headline"] = "H"
               /\ DictGet(found_articles_json.data, A1)["subheadline"] = None
               /\ DictGet(found_articles_json.data, A1)["paragraphs"]
                      = << "P1", "\n\n", "P2" >>

\* C14 witness: the scenario has run to its end and the store holds the entry
C14_Witness ==
    /\ EndToEndScenario
    /\ phase = "Closed"
    /\ close_reason = "finished"
    /\ ~fetch_failed
    /\ fetched[Root] = 1
    /\ fetched[A1] = 1
    /\ DictKeys(found_articles_json.data) = { A1 }

\* C15: as long as the flush has not run in a session, and for good if the
\* process crashes before it, visited_urls.json and found_articles.json are
\* what they were when the session loaded them: nothing between load and
\* flush writes to either file.
C15_NoWriteBeforeFlush ==
    phase \in { "Running", "Stopping", "Crashed" } =>
        /\ visited_urls_json = start_visited
        /\ found_articles_json = start_articles
        /\ flush_log = << >>

\* C15 witness: the process crashed with an article staged and its URL
\* marked session-visited
C15_Witness ==
    /\ phase = "Crashed"
    /\ found_articles # << >>
    /\ visited_urls_this_scrape # { }
    /\ visited_urls_this_scrape \cap Range(visited_urls_json) = { }
    /\ visited_urls_json = start_visited
    /\ found_articles_json = start_articles

\* C16: a URL whose download failed, and that no later response of the
\* session delivered, is not marked session-visited and has no staged record;
\* after the flush it is in visited_urls.json only if it was there before the
\* session; the failure does not end the session, which still closes with
\* both saves called.
C16_FailedFetchNotVisited ==
    /\ \A u \in failed \ processed :
           /\ u \notin visited_urls_this_scrape
           /\ u \notin DictKeys(found_articles)
           /\ (phase = "Closed" /\ u \notin Range(start_visited))
                  => u \notin Range(visited_urls_json)
    /\ (failed # { } /\ phase = "Closed") => flush_log = FlushCalls
    /\ failed # { } => phase \in { "Running", "Stopping", "Closed", "Crashed" }

\* C16 witness: a URL whose download failed in the first session, which was
\* closed and flushed, is fetched and extracted in the second session
C16_Witness ==
    /\ session = 2
    /\ prev_run = "incomplete"
    /\ \E u \in prev_failed :
           /\ u \notin Range(start_visited)
           /\ fetched[u] >= 1
           /\ u \in DictKeys(found_articles)
           /\ u \in visited_urls_this_scrape

\* C17: when visited_urls.json cannot be loaded, no session reaches Running:
\* nothing is requested or fetched, the close handler does not run, and
\* neither file is written.
C17_UnreadableBaselineFailsStart ==
    ~visited_urls_readable =>
        /\ phase \in { "Idle", "Failed" }
        /\ pending = { }
        /\ inflight = { }
        /\ \A u \in Urls : fetched[u] = 0
        /\ flush_log = << >>
        /\ found_articles = << >>
        /\ phase = "Failed" =>
               /\ visited_urls_json = start_visited
               /\ found_articles_json = start_articles

\* C17 witness: a session was started on an unreadable visited_urls.json
\* and failed
C17_Witness ==
    /\ ~visited_urls_readable
    /\ phase = "Failed"
    /\ session >= 1
    /\ found_articles_json = start_articles
    /\ start_articles.exists

C19_MergeAdditive ==
    /\ [] ( (phase = "Closed" /\ start_articles.exists) =>
              /\ \A u \in DictKeys(found_articles) :
                     /\ u \in DictKeys(found_articles_json.data)
                     /\ DictGet(found_articles_json.data, u) = DictGet(found_articles, u)
              /\ \A u \in DictKeys(start_articles.data) \ DictKeys(found_articles) :
                     /\ u \in DictKeys(found_articles_json.data)
                     /\ DictGet(found_articles_json.data, u) = DictGet(start_articles.data, u)
              /\ DictKeys(found_articles_json.data)
                     = DictKeys(start_articles.data) \cup DictKeys(found_articles) )
    /\ [][ DictKeys(found_articles_json.data) \subseteq DictKeys(found_articles_json.data') ]_vars

\* C19 witness: a flush has added a staged record to a store that held a
\* record under another URL, which is still there unchanged
C19_Witness ==
    /\ phase = "Closed"
    /\ start_articles.exists
    /\ \E u \in DictKeys(start_articles.data) \ DictKeys(found_articles) :
           \E v \in DictKeys(found_articles) \ DictKeys(start_articles.data) :
               /\ DictGet(found_articles_json.data, u) = DictGet(start_articles.data, u)
               /\ DictGet(found_articles_json.data, v) = DictGet(found_articles, v)

\* C20: after spider_closing has run, every URL the session added to
\* visited_urls.json has a record under that URL in found_articles.json,
\* also when reading found_articles.json fails.
C20_VisitedImpliesStored ==
    phase = "Closed" =>
        \A u \in Range(visited_urls_json) \ Range(start_visited) :
            /\ found_articles_json.exists
            /\ u \in DictKeys(found_articles_json.data)

\* C21: in every state the keys of found_articles are exactly the URLs of
\* visited_urls_this_scrape, none of them is in the baseline loaded at
\* session start, and every staged record carries its key as url; and within
\* a session no step, a second response for a staged URL included, removes or
\* changes a staged record.
C21_StagedEqualsSessionVisited ==
    /\ [] ( /\ DictKeys(found_articles) = visited_urls_this_scrape
            /\ Len(found_articles) = Cardinality(DictKeys(found_articles))
            /\ visited_urls_this_scrape \cap Range(start_visited) = { }
            /\ \A u \in DictKeys(found_articles) : DictGet(found_articles, u)["url"] = u )
    /\ [][ session' = session =>
             \A u \in DictKeys(found_articles) :
                 /\ u \in DictKeys(found_articles')
                 /\ DictGet(found_articles', u) = DictGet(found_articles, u) ]_vars

\* C21 witness: a staged URL was fetched a second time and its second
\* response has been handled by parse, which did not extract it again
C21_Witness ==
    /\ phase = "Running"
    /\ \E u \in DictKeys(found_articles) :
           /\ fetched[u] = 2
           /\ u \notin failed
           /\ u \notin pending \cup inflight
           /\ last_parse.url = u
           /\ last_parse.handled # "article"
           /\ u \in visited_urls_this_scrape

NoDuplicates(s) == \A i, j \in DOMAIN s : s[i] = s[j] => i = j

IsPrefix(s, t) == Len(s) <= Len(t) /\ SubSeq(t, 1, Len(s)) = s

\* C22: no step of any session removes or moves an entry of
\* visited_urls.json: the content before the step is a prefix of the content
\* after it; and after the flush of a session that loaded a list without
\* duplicates the file holds none, the new entries being appended after the
\* loaded ones.
C22_VisitedOnlyGrows ==
    /\ [][ IsPrefix(visited_urls_json, visited_urls_json') ]_vars
    /\ [] ( InSession => IsPrefix(start_visited, visited_urls_json) )
    /\ [] ( (phase = "Closed" /\ NoDuplicates(start_visited))
               => NoDuplicates(visited_urls_json) )

\* C22 witness: the flush of a second session has appended new URLs to the
\* non-empty list it loaded
C22_Witness ==
    /\ session = 2
    /\ phase = "Closed"
    /\ prev_run # "crashed"
    /\ Len(start_visited) >= 1
    /\ Len(visited_urls_json) > Len(start_visited)
    /\ IsPrefix(start_visited, visited_urls_json)
    /\ NoDuplicates(visited_urls_json)

\* the records of a sequence of calls, in call order
RECURSIVE RecordsOfCalls(_)
RecordsOfCalls(calls) ==
    IF calls = << >> THEN << >>
    ELSE [ i \in DOMAIN Head(calls) |->
             [ headline |-> Head(calls)[i].Headline,
               subheadline |-> Head(calls)[i].Subheadline,
               paragraphs |-> Head(calls)[i].Paragraphs ] ]
         \o RecordsOfCalls(Tail(calls))

\* C23: save_generated_articles appends: after any sequence of calls the
\* output file holds what it held before the first call, followed by the
\* records of every call in call order, each with exactly the fields
\* headline, subheadline and paragraphs; a missing file is created as an
\* empty list first, so after the first call it exists.
C23_GeneratedArticlesAppended ==
    /\ gen_calls = << >> => generated_articles_json = gen_start
    /\ gen_calls # << >> =>
           /\ generated_articles_json.exists
           /\ generated_articles_json.data = gen_start.data \o RecordsOfCalls(gen_calls)
    /\ \A i \in DOMAIN generated_articles_json.data :
           DOMAIN generated_articles_json.data[i]
               = { "headline", "subheadline", "paragraphs" }
    /\ (~gen_start.exists /\ gen_calls # << >>) =>
           generated_articles_json.data = RecordsOfCalls(gen_calls)

\* C23 witness: two calls on a file that held a record, the second with two
\* articles: the file holds the old record and then the three new ones
C23_Witness ==
    /\ gen_start.exists
    /\ Len(gen_start.data) = 1
    /\ Len(gen_calls) = 2
    /\ Len(gen_calls[1]) = 1
    /\ Len(gen_calls[2]) = 2
    /\ gen_calls[1][1] # gen_calls[2][1]
    /\ Len(generated_articles_json.data) = 4
    /\ generated_articles_json.data[1] = gen_start.data[1]
    /\ generated_articles_json.data[2]["headline"] = gen_calls[1][1].Headline
    /\ generated_articles_json.data[4]["headline"] = gen_calls[2][2].Headline

====
